---- MODULE Spec2Model ----
(***************************************************************************)
(* A model of LigindiWM's WindowManager (src/LigindiWM/window_manager.py): *)
(* the startup probe for a rival manager, the startup reparenting of the   *)
(* pre-existing top-level windows, Frame/Unframe, and the event loop with  *)
(* its handlers.  The X server is modelled by the part of its state the    *)
(* manager reads or writes: window tree, map state, geometry, stacking,    *)
(* save-set, passive grabs, input focus and the manager's event queue.     *)
(* A call into the Xlib binding is read as the X11 request it names.        *)
(***************************************************************************)
EXTENDS Integers, Sequences, FiniteSets, TLC

\* ---------------------------------------------------------------- bounds
NumClients == 2
MaxQueue == 2
MaxFrames == 2
MaxPresses == 2
MaxErrors == 1

\* ------------------------------------------------------------- constants
BORDER_WIDTH == 3
NONE == 0

Clients == 1..NumClients
FrameIds == (NumClients + 1)..(NumClients + MaxFrames)
Root == NumClients + MaxFrames + 1

VARIABLES
    pc,           \* position of the manager's thread inside Run
    local,        \* locals of the Frame/Unframe call in progress
    todo,         \* top_level_windows still to be framed at startup
    clients,      \* self.clients: insertion-ordered <<window, frame>> pairs
    drag,         \* drag_start_pos / drag_start_frame_pos / drag_start_frame_size
    session,      \* history: the client of the last press the manager handled,
                  \* and whether a release has been handled since
    wm_detected,  \* WindowManager.wm_detected
    mutex,        \* holder of WindowManager.wm_detected_mutex
    hpc,          \* position of a pending OnWMDetected call
    hctx,         \* execution context the pending OnWMDetected call runs on
    reported,     \* Run logged "Detected another window manager"
    xerrors,      \* number of errors OnXError has logged
    handled,      \* the event whose handler has just completed
    calls,        \* the last two Frame/Unframe calls that returned
    rival,        \* another manager holds SubstructureRedirect on the root
    serverGrabbed,
    parent, mapped, ovr, geom,   \* per client window
    xframes,      \* live manager-created windows -> their attributes
    nframes,      \* number of windows the manager has created so far
    stack,        \* children of the root, bottom to top
    saveSet, grabbed, focus,
    ptr,          \* active pointer grab: <<window, buttons down>> or <<>>
    npress,       \* button presses the user has made so far
    profile,      \* the kinds of activity the environment shows in this run
    queue         \* events delivered to the manager, not yet fetched

probevars == <<wm_detected, mutex, hpc, hctx, reported>>
wmvars == <<pc, local, todo, clients, drag, session, probevars, xerrors, handled, calls>>
xvars == <<rival, serverGrabbed, parent, mapped, ovr, geom, xframes, nframes, stack,
           saveSet, grabbed, focus, ptr, npress, profile, queue>>
vars == <<wmvars, xvars>>

\* ------------------------------------------------------------- registry
\* self.clients is a dict: keys in insertion order.
Keys(c) ==
    {c[i][1] : i \in 1..Len(c)}

Contains(c, w) ==
    w \in Keys(c)

IndexOf(c, w) ==
    CHOOSE i \in 1..Len(c) : c[i][1] = w

Lookup(c, w) ==
    c[IndexOf(c, w)][2]

\* self.clients[w] = frame
DictSet(c, w, f) ==
    IF Contains(c, w)
    THEN [c EXCEPT ![IndexOf(c, w)] = <<w, f>>]
    ELSE Append(c, <<w, f>>)

\* Mutant: the registry entry is never dropped.
DictDelKept(c, w) ==
    c

\* del self.clients[w]
DictDel(c, w) ==
    SelectSeq(c, LAMBDA p : p[1] # w)

Order(c) ==
    [i \in 1..Len(c) |-> c[i][1]]

FramesOf(c) ==
    {c[i][2] : i \in 1..Len(c)}

\* ------------------------------------------------------------- X server
Remove(s, x) ==
    SelectSeq(s, LAMBDA y : y # x)

Raise(s, x) ==
    Append(Remove(s, x), x)

Lower(s, x) ==
    <<x>> \o Remove(s, x)

NoAttrs ==
    [x |-> 0, y |-> 0, width |-> 0, height |-> 0]

NoFrame ==
    [live |-> FALSE, mapped |-> FALSE, x |-> 0, y |-> 0, width |-> 0, height |-> 0,
     border_width |-> 0]

LiveFrames ==
    {f \in FrameIds : xframes[f].live}

NoDrag ==
    [set |-> FALSE, pos |-> <<0, 0>>, frame_pos |-> <<0, 0>>, frame_size |-> <<0, 0>>]

NoSession ==
    [w |-> NONE, open |-> FALSE]

InitGeom(w) ==
    [x |-> w, y |-> 1, width |-> 2, height |-> 1, border_width |-> 0]

\* A window is viewable when it and all its ancestors are mapped.
Viewable(w) ==
    /\ mapped[w]
    /\ parent[w] # Root => xframes[parent[w]].mapped

\* ---------------------------------------------------------------- events
PointerTypes == {"KeyPress", "KeyRelease", "ButtonPress", "ButtonRelease", "MotionNotify"}

\* by is the handler that has returned for the event, "none" while the event
\* is in flight; skipped counts the events the loop fetched and dropped on
\* the way to that call.
Event(t, w) ==
    [type |-> t, window |-> w, event |-> NONE,
     x_root |-> 0, y_root |-> 0, state |-> {}, keycode |-> "none",
     changes |-> NONE, cause |-> "client", by |-> "none", skipped |-> 0]

Handled(h, e) ==
    [e EXCEPT !.by = h]

NoEvent ==
    Event("none", NONE)

NoLocal ==
    [w |-> NONE, pre |-> FALSE, ret |-> "none", frame |-> NONE, attrs |-> NoAttrs,
     e |-> NoEvent]

\* cause records what made the server send the notification: a client's
\* request, or a request of the manager ("startup" during the startup
\* reparenting).
UnmapNotify(w, p, c) ==
    [Event("UnmapNotify", w) EXCEPT !.event = p, !.cause = c]

\* The record of a Frame or Unframe call that has returned; frame is the
\* window it created or destroyed, NONE if it did nothing.
Called(op, l) ==
    [op |-> op, w |-> l.w, pre |-> l.pre, frame |-> l.frame]

Record(h, c) ==
    IF Len(h) < 2 THEN Append(h, c) ELSE <<h[2], c>>

\* Besides mapping and unmapping windows, the environment of one run shows one
\* kind of activity.
Profiles ==
    {"override", "notify", "key", "pointer", "configure"}

\* ------------------------------------------------------------------ Init
Init ==
    /\ pc = "init"
    /\ local = NoLocal
    /\ todo = <<>>
    /\ clients = <<>>
    /\ drag = NoDrag
    /\ session = NoSession
    /\ wm_detected = FALSE
    /\ mutex = "free"
    /\ hpc = "idle"
    /\ hctx = "none"
    /\ reported = FALSE
    /\ xerrors = 0
    /\ handled = NoEvent
    /\ calls = <<>>
    /\ rival \in BOOLEAN
    /\ serverGrabbed = FALSE
    /\ parent = [w \in Clients |-> Root]
    /\ mapped \in [Clients -> BOOLEAN]
    /\ ovr \in [Clients -> BOOLEAN]
    /\ geom = [w \in Clients |-> InitGeom(w)]
    /\ xframes = [f \in FrameIds |-> NoFrame]
    /\ nframes = 0
    /\ stack = [i \in 1..NumClients |-> i]
    /\ saveSet = {}
    /\ grabbed = {}
    /\ focus = NONE
    /\ ptr = <<>>
    /\ npress = 0
    /\ profile \in Profiles
    /\ queue = <<>>

\* --------------------------------------------------- Run: startup probe
\* Lines 35-38: take the mutex, clear the flag, install OnWMDetected and ask
\* for SubstructureRedirect | SubstructureNotify on the root.
RunProbeBegin ==
    /\ pc = "init"
    /\ mutex = "free"
    /\ mutex' = "run"
    /\ wm_detected' = FALSE
    /\ pc' = "probe_sync"
    /\ UNCHANGED <<local, todo, clients, drag, session, hpc, hctx, reported, xerrors,
                   handled, calls, rival, serverGrabbed, parent, mapped, ovr, geom, xframes,
                   nframes, stack, saveSet, grabbed, focus, ptr, npress, profile, queue>>

\* Line 39, no rival: the round trip returns without an error.
ProbeSyncClean ==
    /\ pc = "probe_sync"
    /\ ~rival
    /\ pc' = "probe_check"
    /\ UNCHANGED <<local, todo, clients, drag, session, wm_detected, mutex, hpc, hctx,
                   reported, xerrors, handled, calls, rival, serverGrabbed, parent, mapped,
                   ovr, geom, xframes, nframes, stack, saveSet, grabbed, focus, ptr, npress,
                   profile, queue>>

\* Line 39, a rival holds the redirect: the server answers BadAccess and the
\* installed handler OnWMDetected is called, either on the thread that is
\* inside sync() (which then waits for the handler to return) or on another
\* execution context (sync() returns on its own).
ProbeSyncError(ctx) ==
    /\ pc = "probe_sync"
    /\ rival
    /\ hpc' = "acquire"
    /\ hctx' = ctx
    /\ pc' = IF ctx = "same" THEN "in_handler" ELSE "probe_check"
    /\ UNCHANGED <<local, todo, clients, drag, session, wm_detected, mutex, reported,
                   xerrors, handled, calls, rival, serverGrabbed, parent, mapped, ovr, geom,
                   xframes, nframes, stack, saveSet, grabbed, focus, ptr, npress, profile,
                   queue>>

\* threading.Lock is not reentrant: acquire succeeds only on a free lock,
\* whoever asks.
LockFree(holder) ==
    holder = "free"

\* Line 353: OnWMDetected enters "with wm_detected_mutex".
OnWMDetectedAcquire ==
    /\ hpc = "acquire"
    /\ LockFree(mutex)
    /\ mutex' = "handler"
    /\ hpc' = "set"
    /\ UNCHANGED <<pc, local, todo, clients, drag, session, wm_detected, hctx, reported,
                   xerrors, handled, calls, rival, serverGrabbed, parent, mapped, ovr, geom,
                   xframes, nframes, stack, saveSet, grabbed, focus, ptr, npress, profile,
                   queue>>

\* Lines 354-356: set the flag, leave the with block, return.
OnWMDetectedSet ==
    /\ hpc = "set"
    /\ wm_detected' = TRUE
    /\ mutex' = "free"
    /\ hpc' = "done"
    /\ pc' = IF hctx = "same" THEN "probe_check" ELSE pc
    /\ UNCHANGED <<local, todo, clients, drag, session, hctx, reported, xerrors, handled,
                   calls, rival, serverGrabbed, parent, mapped, ovr, geom, xframes, nframes,
                   stack, saveSet, grabbed, focus, ptr, npress, profile, queue>>

\* Lines 40-42 and the end of the with block.
ProbeCheck ==
    /\ pc = "probe_check"
    /\ mutex' = "free"
    /\ IF wm_detected
       THEN /\ reported' = TRUE
            /\ pc' = "returned"
       ELSE /\ reported' = reported
            /\ pc' = "grab"
    /\ UNCHANGED <<local, todo, clients, drag, session, wm_detected, hpc, hctx, xerrors,
                   handled, calls, rival, serverGrabbed, parent, mapped, ovr, geom, xframes,
                   nframes, stack, saveSet, grabbed, focus, ptr, npress, profile, queue>>

\* ------------------------------------------------ Run: startup reparenting
\* Lines 44-49: install OnXError, grab the server, query the root's children.
GrabServer ==
    /\ pc = "grab"
    /\ serverGrabbed' = TRUE
    /\ todo' = stack
    /\ pc' = "startup"
    /\ UNCHANGED <<local, clients, drag, session, wm_detected, mutex, hpc, hctx, reported,
                   xerrors, handled, calls, rival, parent, mapped, ovr, geom, xframes,
                   nframes, stack, saveSet, grabbed, focus, ptr, npress, profile, queue>>

\* Lines 51-52: self.Frame(w, True) for the next top-level window.
StartupFrame ==
    /\ pc = "startup"
    /\ todo # <<>>
    /\ local' = [NoLocal EXCEPT !.w = Head(todo), !.pre = TRUE, !.ret = "startup"]
    /\ todo' = Tail(todo)
    /\ pc' = "frame_check"
    /\ UNCHANGED <<clients, drag, session, wm_detected, mutex, hpc, hctx, reported, xerrors,
                   handled, calls, rival, serverGrabbed, parent, mapped, ovr, geom, xframes,
                   nframes, stack, saveSet, grabbed, focus, ptr, npress, profile, queue>>

\* Lines 54-56: ungrab the server and enter the main loop.
UngrabServer ==
    /\ pc = "startup"
    /\ todo = <<>>
    /\ serverGrabbed' = FALSE
    /\ pc' = "loop"
    /\ UNCHANGED <<local, todo, clients, drag, session, wm_detected, mutex, hpc, hctx,
                   reported, xerrors, handled, calls, rival, parent, mapped, ovr, geom,
                   xframes, nframes, stack, saveSet, grabbed, focus, ptr, npress, profile,
                   queue>>

\* ------------------------------------------------------------------ Frame
\* Where Frame returns to: the startup loop (line 51) or OnMapRequest (line 237).
FrameReturn ==
    /\ pc' = IF local.ret = "startup" THEN "startup" ELSE "maprequest_map"
    /\ local' = IF local.ret = "startup" THEN NoLocal ELSE local
    /\ calls' = Record(calls, Called("Frame", local))

\* Mutant: Frame without its first test.
AlreadyFramedNever(c, w) ==
    FALSE

\* Line 106: w in self.clients.
AlreadyFramed(c, w) ==
    Contains(c, w)

\* Mutant: the override_redirect test is left out.
SkipUnviewableOnly(pre, override_redirect, viewable) ==
    pre /\ ~viewable

\* Lines 114-116: a window that existed before the manager is framed only if
\* it is viewable and does not set override_redirect.
SkipPreExisting(pre, override_redirect, viewable) ==
    pre /\ (override_redirect \/ ~viewable)

\* Lines 105-116: return if already framed; read the attributes; return if a
\* pre-existing window is not to be framed.
FrameCheck ==
    /\ pc = "frame_check"
    /\ IF AlreadyFramed(clients, local.w)
       THEN FrameReturn
       ELSE IF SkipPreExisting(local.pre, ovr[local.w], Viewable(local.w))
            THEN FrameReturn
            ELSE /\ pc' = "frame_create"
                 /\ UNCHANGED calls
                 /\ local' = [local EXCEPT !.attrs =
                        [x |-> geom[local.w].x, y |-> geom[local.w].y,
                         width |-> geom[local.w].width, height |-> geom[local.w].height]]
    /\ UNCHANGED <<todo, clients, drag, session, wm_detected, mutex, hpc, hctx, reported,
                   xerrors, handled, rival, serverGrabbed, parent, mapped, ovr, geom,
                   xframes, nframes, stack, saveSet, grabbed, focus, ptr, npress, profile,
                   queue>>

\* Lines 119-130: create the frame window under the root, with the client's
\* geometry and the fixed border, and select events on it.
FrameCreate ==
    /\ pc = "frame_create"
    /\ nframes < MaxFrames
    /\ LET f == NumClients + nframes + 1 IN
        /\ xframes' = [xframes EXCEPT ![f] =
              [live |-> TRUE, mapped |-> FALSE,
               x |-> local.attrs.x, y |-> local.attrs.y,
               width |-> local.attrs.width, height |-> local.attrs.height,
               border_width |-> BORDER_WIDTH]]
        /\ stack' = Append(stack, f)
        /\ local' = [local EXCEPT !.frame = f]
    /\ nframes' = nframes + 1
    /\ pc' = "frame_save_set"
    /\ UNCHANGED <<todo, clients, drag, session, wm_detected, mutex, hpc, hctx, reported,
                   xerrors, handled, calls, rival, serverGrabbed, parent, mapped, ovr, geom,
                   saveSet, grabbed, focus, ptr, npress, profile, queue>>

\* Mutant: Frame goes on without adding the client to the save-set.
FrameWithoutSaveSet ==
    /\ pc = "frame_save_set"
    /\ pc' = "frame_reparent"
    /\ UNCHANGED <<local, todo, clients, drag, session, wm_detected, mutex, hpc, hctx,
                   reported, xerrors, handled, calls, rival, serverGrabbed, parent, mapped,
                   ovr, geom, xframes, nframes, stack, saveSet, grabbed, focus, ptr, npress,
                   profile, queue>>

\* Line 133: self.display.add_to_save_set(w).
FrameAddToSaveSet ==
    /\ pc = "frame_save_set"
    /\ saveSet' = saveSet \cup {local.w}
    /\ pc' = "frame_reparent"
    /\ UNCHANGED <<local, todo, clients, drag, session, wm_detected, mutex, hpc, hctx,
                   reported, xerrors, handled, calls, rival, serverGrabbed, parent, mapped,
                   ovr, geom, xframes, nframes, stack, grabbed, focus, ptr, npress, profile,
                   queue>>

\* The manager is told of an unmap under the root (unless a rival holds the
\* root's event selection) and under each of its frames.
Listens(p) ==
    IF p = Root THEN ~rival ELSE p \in LiveFrames

\* ReparentWindow on the server: a mapped window is unmapped first (its old
\* parent's listeners get UnmapNotify), moved, and mapped again.
ReparentQueue(w) ==
    IF mapped[w] /\ Listens(parent[w])
    THEN Append(queue, UnmapNotify(w, parent[w], IF local.pre THEN "startup" ELSE "manager"))
    ELSE queue

\* Line 135: w.reparent(frame, 0, 0).
FrameReparent ==
    /\ pc = "frame_reparent"
    /\ queue' = ReparentQueue(local.w)
    /\ parent' = [parent EXCEPT ![local.w] = local.frame]
    /\ geom' = [geom EXCEPT ![local.w].x = 0, ![local.w].y = 0]
    /\ stack' = Remove(stack, local.w)
    /\ pc' = "frame_map"
    /\ UNCHANGED <<local, todo, clients, drag, session, wm_detected, mutex, hpc, hctx,
                   reported, xerrors, handled, calls, rival, serverGrabbed, mapped, ovr,
                   xframes, nframes, saveSet, grabbed, focus, ptr, npress, profile>>

\* Line 137: frame.map().
FrameMap ==
    /\ pc = "frame_map"
    /\ xframes' = [xframes EXCEPT ![local.frame].mapped = TRUE]
    /\ pc' = "frame_save"
    /\ UNCHANGED <<local, todo, clients, drag, session, wm_detected, mutex, hpc, hctx,
                   reported, xerrors, handled, calls, rival, serverGrabbed, parent, mapped,
                   ovr, geom, nframes, stack, saveSet, grabbed, focus, ptr, npress, profile,
                   queue>>

\* Line 139: self.clients[w] = frame.
FrameSave ==
    /\ pc = "frame_save"
    /\ clients' = DictSet(clients, local.w, local.frame)
    /\ pc' = "frame_grab"
    /\ UNCHANGED <<local, todo, drag, session, wm_detected, mutex, hpc, hctx, reported,
                   xerrors, handled, calls, rival, serverGrabbed, parent, mapped, ovr, geom,
                   xframes, nframes, stack, saveSet, grabbed, focus, ptr, npress, profile,
                   queue>>

\* Lines 142-172: the four passive grabs on the client; Frame returns.
FrameGrab ==
    /\ pc = "frame_grab"
    /\ grabbed' = grabbed \cup {local.w}
    /\ FrameReturn
    /\ UNCHANGED <<todo, clients, drag, session, wm_detected, mutex, hpc, hctx, reported,
                   xerrors, handled, rival, serverGrabbed, parent, mapped, ovr, geom,
                   xframes, nframes, stack, saveSet, focus, ptr, npress, profile, queue>>

\* ---------------------------------------------------------------- Unframe
\* Line 183: frame.unmap().  The root's listener is told of it.
UnframeUnmap ==
    /\ pc = "unframe_unmap"
    /\ xframes' = [xframes EXCEPT ![local.frame].mapped = FALSE]
    /\ queue' = IF xframes[local.frame].mapped /\ Listens(Root)
                THEN Append(queue, UnmapNotify(local.frame, Root, "manager"))
                ELSE queue
    /\ pc' = "unframe_reparent"
    /\ UNCHANGED <<local, todo, clients, drag, session, wm_detected, mutex, hpc, hctx,
                   reported, xerrors, handled, calls, rival, serverGrabbed, parent, mapped,
                   ovr, geom, nframes, stack, saveSet, grabbed, focus, ptr, npress,
                   profile>>

\* Line 185: w.reparent(self.root, 0, 0).
UnframeReparent ==
    /\ pc = "unframe_reparent"
    /\ queue' = ReparentQueue(local.w)
    /\ parent' = [parent EXCEPT ![local.w] = Root]
    /\ geom' = [geom EXCEPT ![local.w].x = 0, ![local.w].y = 0]
    /\ stack' = Append(stack, local.w)
    /\ pc' = "unframe_save_set"
    /\ UNCHANGED <<local, todo, clients, drag, session, wm_detected, mutex, hpc, hctx,
                   reported, xerrors, handled, calls, rival, serverGrabbed, mapped, ovr,
                   xframes, nframes, saveSet, grabbed, focus, ptr, npress, profile>>

\* Mutant: Unframe leaves the client in the save-set.
UnframeKeepsSaveSet ==
    /\ pc = "unframe_save_set"
    /\ pc' = "unframe_destroy"
    /\ UNCHANGED <<local, todo, clients, drag, session, wm_detected, mutex, hpc, hctx,
                   reported, xerrors, handled, calls, rival, serverGrabbed, parent, mapped,
                   ovr, geom, xframes, nframes, stack, saveSet, grabbed, focus, ptr, npress,
                   profile, queue>>

\* Line 187: self.display.remove_from_save_set(w).
UnframeRemoveFromSaveSet ==
    /\ pc = "unframe_save_set"
    /\ saveSet' = saveSet \ {local.w}
    /\ pc' = "unframe_destroy"
    /\ UNCHANGED <<local, todo, clients, drag, session, wm_detected, mutex, hpc, hctx,
                   reported, xerrors, handled, calls, rival, serverGrabbed, parent, mapped,
                   ovr, geom, xframes, nframes, stack, grabbed, focus, ptr, npress, profile,
                   queue>>

\* Mutant: Unframe leaves the frame window alive.
UnframeKeepsFrame ==
    /\ pc = "unframe_destroy"
    /\ pc' = "unframe_drop"
    /\ UNCHANGED <<local, todo, clients, drag, session, wm_detected, mutex, hpc, hctx,
                   reported, xerrors, handled, calls, rival, serverGrabbed, parent, mapped,
                   ovr, geom, xframes, nframes, stack, saveSet, grabbed, focus, ptr, npress,
                   profile, queue>>

\* Line 189: frame.destroy().
UnframeDestroy ==
    /\ pc = "unframe_destroy"
    /\ xframes' = [xframes EXCEPT ![local.frame] = NoFrame]
    /\ stack' = Remove(stack, local.frame)
    /\ pc' = "unframe_drop"
    /\ UNCHANGED <<local, todo, clients, drag, session, wm_detected, mutex, hpc, hctx,
                   reported, xerrors, handled, calls, rival, serverGrabbed, parent, mapped,
                   ovr, geom, nframes, saveSet, grabbed, focus, ptr, npress, profile,
                   queue>>

\* Line 191: del self.clients[w]; Unframe and OnUnmapNotify return.
UnframeDrop ==
    /\ pc = "unframe_drop"
    /\ clients' = DictDel(clients, local.w)
    /\ calls' = Record(calls, Called("Unframe", local))
    /\ handled' = Handled("OnUnmapNotify", local.e)
    /\ local' = NoLocal
    /\ pc' = "loop"
    /\ UNCHANGED <<todo, drag, session, wm_detected, mutex, hpc, hctx, reported, xerrors,
                   rival, serverGrabbed, parent, mapped, ovr, geom, xframes, nframes, stack,
                   saveSet, grabbed, focus, ptr, npress, profile, queue>>

\* ------------------------------------------------------- Run: main loop
\* Lines 59-61: the manager is between handlers and an event is pending.
Fetching ==
    pc = "loop" /\ queue # <<>>

IgnoredTypes ==
    {"CreateNotify", "DestroyNotify", "ReparentNotify", "MapNotify", "ConfigureNotify",
     "KeyRelease", "Other"}

\* Mutant: DestroyNotify for a key unframes it instead of being ignored.
DestroyNotifyUnframes ==
    /\ Fetching
    /\ Head(queue).type \in IgnoredTypes
    /\ queue' = Tail(queue)
    /\ IF Head(queue).type = "DestroyNotify" /\ Contains(clients, Head(queue).window)
       THEN /\ handled' = NoEvent
            /\ local' = [NoLocal EXCEPT !.w = Head(queue).window, !.e = Head(queue),
                                        !.frame = Lookup(clients, Head(queue).window)]
            /\ pc' = "unframe_unmap"
       ELSE /\ handled' = Handled("none", Head(queue))
            /\ UNCHANGED <<pc, local>>
    /\ UNCHANGED <<todo, clients, drag, session, wm_detected, mutex, hpc, hctx,
                   reported, xerrors, calls, rival, serverGrabbed, parent, mapped, ovr,
                   geom, xframes, nframes, stack, saveSet, grabbed, focus, ptr, npress,
                   profile>>

\* Lines 65-72, 75-76, 94-97: handlers that are "pass", and the final else
\* branch.
DispatchIgnored ==
    /\ Fetching
    /\ Head(queue).type \in IgnoredTypes
    /\ queue' = Tail(queue)
    /\ handled' = Handled("none", Head(queue))
    /\ UNCHANGED <<pc, local, todo, clients, drag, session, wm_detected, mutex, hpc, hctx,
                   reported, xerrors, calls, rival, serverGrabbed, parent, mapped, ovr,
                   geom, xframes, nframes, stack, saveSet, grabbed, focus, ptr, npress,
                   profile>>

\* Mutant: OnUnmapNotify without the test of e.event.
ReportedByRootNever(e) ==
    FALSE

\* Line 224: the notification was reported to the root's listener.
ReportedByRoot(e) ==
    e.event = Root

\* Lines 73-74, 207-228 and 177-181: OnUnmapNotify, up to Unframe's first
\* request.
DispatchUnmapNotify ==
    /\ Fetching
    /\ Head(queue).type = "UnmapNotify"
    /\ queue' = Tail(queue)
    /\ LET e == Head(queue) IN
        IF ~Contains(clients, e.window) \/ ReportedByRoot(e)
        THEN /\ handled' = Handled("OnUnmapNotify", e)
             /\ UNCHANGED <<pc, local>>
        ELSE /\ handled' = NoEvent
             /\ local' = [NoLocal EXCEPT !.w = e.window, !.e = e,
                                         !.frame = Lookup(clients, e.window)]
             /\ pc' = "unframe_unmap"
    /\ UNCHANGED <<todo, clients, drag, session, wm_detected, mutex, hpc, hctx, reported,
                   xerrors, calls, rival, serverGrabbed, parent, mapped, ovr, geom, xframes,
                   nframes, stack, saveSet, grabbed, focus, ptr, npress, profile>>

\* Mutant: OnMapRequest frames the window as a pre-existing one.
MapRequestAsPreExisting ==
    TRUE

\* Line 235: the second argument of Frame.
MapRequestPreExisting ==
    FALSE

\* Lines 77-78, 233-235: OnMapRequest calls self.Frame(e.window, False).
DispatchMapRequest ==
    /\ Fetching
    /\ Head(queue).type = "MapRequest"
    /\ queue' = Tail(queue)
    /\ handled' = NoEvent
    /\ local' = [NoLocal EXCEPT !.w = Head(queue).window, !.e = Head(queue),
                                !.pre = MapRequestPreExisting, !.ret = "maprequest"]
    /\ pc' = "frame_check"
    /\ UNCHANGED <<todo, clients, drag, session, wm_detected, mutex, hpc, hctx, reported,
                   xerrors, calls, rival, serverGrabbed, parent, mapped, ovr, geom, xframes,
                   nframes, stack, saveSet, grabbed, focus, ptr, npress, profile>>

\* Line 237: e.window.map(); OnMapRequest returns.
OnMapRequestMap ==
    /\ pc = "maprequest_map"
    /\ mapped' = [mapped EXCEPT ![local.w] = TRUE]
    /\ handled' = Handled("OnMapRequest", local.e)
    /\ local' = NoLocal
    /\ pc' = "loop"
    /\ UNCHANGED <<todo, clients, drag, session, wm_detected, mutex, hpc, hctx, reported,
                   xerrors, calls, rival, serverGrabbed, parent, ovr, geom, xframes,
                   nframes, stack, saveSet, grabbed, focus, ptr, npress, profile, queue>>

\* ConfigureWindow's stacking part, for a child of the root.
Restack(s, w, mode) ==
    IF mode = "Above" THEN Raise(s, w) ELSE Lower(s, w)

\* Mutant: OnConfigureRequest without lines 249-252.
ConfigureClientOnly ==
    /\ Fetching
    /\ Head(queue).type = "ConfigureRequest"
    /\ queue' = Tail(queue)
    /\ handled' = Handled("OnConfigureRequest", Head(queue))
    /\ geom' = [geom EXCEPT ![Head(queue).window] =
                    [x |-> Head(queue).changes.x, y |-> Head(queue).changes.y,
                     width |-> Head(queue).changes.width,
                     height |-> Head(queue).changes.height,
                     border_width |-> Head(queue).changes.border_width]]
    /\ UNCHANGED <<pc, local, todo, clients, drag, session, wm_detected, mutex, hpc, hctx,
                   reported, xerrors, calls, rival, serverGrabbed, parent, mapped, ovr,
                   xframes, nframes, stack, saveSet, grabbed, focus, ptr, npress, profile>>

\* Lines 79-80, 239-254: OnConfigureRequest.
DispatchConfigureRequest ==
    /\ Fetching
    /\ Head(queue).type = "ConfigureRequest"
    /\ queue' = Tail(queue)
    /\ handled' = Handled("OnConfigureRequest", Head(queue))
    /\ LET e == Head(queue)
           w == e.window
           ch == e.changes
           framed == Contains(clients, w)
           f == Lookup(clients, w)
           s1 == IF framed THEN Restack(stack, f, ch.stack_mode) ELSE stack
       IN
        /\ xframes' = IF framed
                      THEN [xframes EXCEPT ![f].x = ch.x, ![f].y = ch.y,
                                           ![f].width = ch.width, ![f].height = ch.height,
                                           ![f].border_width = ch.border_width]
                      ELSE xframes
        /\ geom' = [geom EXCEPT ![w] = [x |-> ch.x, y |-> ch.y, width |-> ch.width,
                                        height |-> ch.height,
                                        border_width |-> ch.border_width]]
        /\ stack' = IF parent[w] = Root THEN Restack(s1, w, ch.stack_mode) ELSE s1
    /\ UNCHANGED <<pc, local, todo, clients, drag, session, wm_detected, mutex, hpc, hctx,
                   reported, xerrors, calls, rival, serverGrabbed, parent, mapped, ovr,
                   nframes, saveSet, grabbed, focus, ptr, npress, profile>>

\* Lines 81-82, 256-270: OnButtonPress.
DispatchButtonPress ==
    /\ Fetching
    /\ Head(queue).type = "ButtonPress"
    /\ queue' = Tail(queue)
    /\ handled' = Handled("OnButtonPress", Head(queue))
    /\ LET e == Head(queue)
           f == Lookup(clients, e.window)
       IN
        IF ~Contains(clients, e.window)
        THEN UNCHANGED <<drag, session, stack>>
        ELSE /\ session' = [w |-> e.window, open |-> TRUE]
             /\ drag' = [set |-> TRUE, pos |-> <<e.x_root, e.y_root>>,
                         frame_pos |-> <<xframes[f].x, xframes[f].y>>,
                         frame_size |-> <<xframes[f].width, xframes[f].height>>]
             /\ stack' = Raise(stack, f)
    /\ UNCHANGED <<pc, local, todo, clients, wm_detected, mutex, hpc, hctx, reported,
                   xerrors, calls, rival, serverGrabbed, parent, mapped, ovr, geom, xframes,
                   nframes, saveSet, grabbed, focus, ptr, npress, profile>>

\* Lines 83-84, 272-273: OnButtonRelease is "pass"; the drag_start values
\* stay as they are.
DispatchButtonRelease ==
    /\ Fetching
    /\ Head(queue).type = "ButtonRelease"
    /\ queue' = Tail(queue)
    /\ handled' = Handled("OnButtonRelease", Head(queue))
    /\ session' = [session EXCEPT !.open = FALSE]
    /\ UNCHANGED <<pc, local, todo, clients, drag, wm_detected, mutex, hpc, hctx, reported,
                   xerrors, calls, rival, serverGrabbed, parent, mapped, ovr, geom, xframes,
                   nframes, stack, saveSet, grabbed, focus, ptr, npress, profile>>

\* Line 89: the test that ends the drain.  Both sides of the second
\* comparison are the event just fetched.
DrainBreaks(e) ==
    e.type # "MotionNotify" \/ e.window # e.window

\* Mutant: no pending event is skipped.
DrainNothing(e, q) ==
    <<e, q>>

\* Lines 87-90: while events are pending, fetch the next one into e; stop at
\* the first that breaks.  The result is <<e, the events left pending>>.
RECURSIVE Drain(_, _)
Drain(e, q) ==
    IF q = <<>>
    THEN <<e, q>>
    ELSE IF DrainBreaks(Head(q))
         THEN <<Head(q), Tail(q)>>
         ELSE Drain(Head(q), Tail(q))

\* x_root, y_root and state exist on key, button and motion events only.
HasPointerFields(e) ==
    e.type \in PointerTypes

\* Mutant: no lower limit on the size delta.
MaxFirst(a, b) ==
    a

\* Line 289: max.
Max(a, b) ==
    IF a >= b THEN a ELSE b

\* Mutant: a move that starts from where the frame is now.
DestFramePosFromCurrent(e) ==
    <<xframes[Lookup(clients, e.window)].x + (e.x_root - drag.pos[1]),
      xframes[Lookup(clients, e.window)].y + (e.y_root - drag.pos[2])>>

\* Lines 280, 284: the frame position of a move.
DestFramePos(e) ==
    <<drag.frame_pos[1] + (e.x_root - drag.pos[1]),
      drag.frame_pos[2] + (e.y_root - drag.pos[2])>>

\* Lines 280, 289-290: the frame size of a resize.
DestFrameSize(e) ==
    <<drag.frame_size[1] + Max(e.x_root - drag.pos[1], -drag.frame_size[1]),
      drag.frame_size[2] + Max(e.y_root - drag.pos[2], -drag.frame_size[2])>>

\* Lines 275-294: OnMotionNotify(e).  Reading an attribute the event or the
\* manager does not have raises AttributeError, which nothing catches.
OnMotionNotify(e) ==
    LET f == Lookup(clients, e.window) IN
    IF ~Contains(clients, e.window)
    THEN /\ handled' = Handled("OnMotionNotify", e)
         /\ UNCHANGED <<pc, xframes, geom>>
    ELSE IF ~HasPointerFields(e) \/ ~drag.set
    THEN /\ pc' = "crashed"
         /\ handled' = NoEvent
         /\ UNCHANGED <<xframes, geom>>
    ELSE IF "Button1" \in e.state
    THEN /\ xframes' = [xframes EXCEPT ![f].x = DestFramePos(e)[1],
                                       ![f].y = DestFramePos(e)[2]]
         /\ handled' = Handled("OnMotionNotify", e)
         /\ UNCHANGED <<pc, geom>>
    ELSE IF "Button3" \in e.state
    THEN /\ xframes' = [xframes EXCEPT ![f].width = DestFrameSize(e)[1],
                                       ![f].height = DestFrameSize(e)[2]]
         /\ geom' = [geom EXCEPT ![e.window].width = DestFrameSize(e)[1],
                                 ![e.window].height = DestFrameSize(e)[2]]
         /\ handled' = Handled("OnMotionNotify", e)
         /\ UNCHANGED pc
    ELSE /\ handled' = Handled("OnMotionNotify", e)
         /\ UNCHANGED <<pc, xframes, geom>>

\* Lines 85-91: skip the pending motion events, then OnMotionNotify.
DispatchMotionNotify ==
    /\ Fetching
    /\ Head(queue).type = "MotionNotify"
    /\ LET r == Drain(Head(queue), Tail(queue)) IN
        /\ queue' = r[2]
        /\ OnMotionNotify([r[1] EXCEPT !.skipped = Len(queue) - Len(r[2]) - 1])
    /\ UNCHANGED <<local, todo, clients, drag, session, wm_detected, mutex, hpc, hctx,
                   reported, xerrors, calls, rival, serverGrabbed, parent, mapped, ovr,
                   nframes, stack, saveSet, grabbed, focus, ptr, npress, profile>>

\* Mutant: the search never advances past the first key.
NextWindowFirst(c, w) ==
    c[1][1]

\* Lines 320-326: the key after w in iteration order, the first key after the
\* last.
NextWindow(c, w) ==
    IF IndexOf(c, w) < Len(c) THEN c[IndexOf(c, w) + 1][1] ELSE c[1][1]

\* Lines 92-93, 296-330: OnKeyPress.  Alt+F4 sends WM_DELETE_WINDOW or kills
\* the client, which changes nothing the manager keeps.  Alt+Tab on a window
\* that is no key runs the iterator off its end: StopIteration, uncaught.
DispatchKeyPress ==
    /\ Fetching
    /\ Head(queue).type = "KeyPress"
    /\ queue' = Tail(queue)
    /\ LET e == Head(queue) IN
        IF "Mod1" \in e.state /\ e.keycode = "F4"
        THEN /\ handled' = Handled("OnKeyPress", e)
             /\ UNCHANGED <<pc, stack, focus>>
        ELSE IF "Mod1" \in e.state /\ e.keycode = "Tab"
        THEN IF ~Contains(clients, e.window)
             THEN /\ pc' = "crashed"
                  /\ handled' = NoEvent
                  /\ UNCHANGED <<stack, focus>>
             ELSE /\ stack' = Raise(stack, Lookup(clients, NextWindow(clients, e.window)))
                  /\ focus' = NextWindow(clients, e.window)
                  /\ handled' = Handled("OnKeyPress", e)
                  /\ UNCHANGED pc
        ELSE /\ handled' = Handled("OnKeyPress", e)
             /\ UNCHANGED <<pc, stack, focus>>
    /\ UNCHANGED <<local, todo, clients, drag, session, wm_detected, mutex, hpc, hctx,
                   reported, xerrors, calls, rival, serverGrabbed, parent, mapped, ovr,
                   geom, xframes, nframes, saveSet, grabbed, ptr, npress, profile>>

\* Lines 44, 335-345: OnXError, called when the connection reads the error
\* reply to an earlier request of the manager; it logs the error and returns.
OnXError ==
    /\ pc = "loop" /\ ~rival
    /\ profile = "notify"
    /\ xerrors < MaxErrors
    /\ xerrors' = xerrors + 1
    /\ handled' = NoEvent
    /\ UNCHANGED <<pc, local, todo, clients, drag, session, wm_detected, mutex, hpc, hctx,
                   reported, calls, rival, serverGrabbed, parent, mapped, ovr, geom,
                   xframes, nframes, stack, saveSet, grabbed, focus, ptr, npress, profile,
                   queue>>

\* ------------------------------------------------------------ environment
\* Applications and the user act between two handlers of the manager.
ConfigureChoices ==
    {[x |-> 3, y |-> 2, width |-> 4, height |-> 3, border_width |-> 1,
      sibling |-> NONE, stack_mode |-> "Above"],
     [x |-> 0, y |-> 0, width |-> 2, height |-> 1, border_width |-> 0,
      sibling |-> NONE, stack_mode |-> "Below"]}

\* Root-pointer positions: where buttons go down, where motion is reported
\* and where buttons go up.
PressPositions ==
    {<<0, 2>>}

PointerPositions ==
    {<<0, 2>>, <<2, 0>>}

ReleasePositions ==
    {<<2, 0>>}

\* With a rival manager on the display the environment is left silent.
Quiet ==
    pc = "loop" /\ ~rival

Room ==
    Quiet /\ Len(queue) < MaxQueue


Deliver(e) ==
    /\ queue' = Append(queue, e)
    /\ handled' = NoEvent

PendingMapRequests ==
    Cardinality({i \in 1..Len(queue) : queue[i].type = "MapRequest"})

\* MapWindow by an application: redirected to the manager unless the window
\* sets override_redirect or nobody redirects its parent.
AppMapWindow(w) ==
    /\ Room
    /\ ~mapped[w]
    /\ IF ~ovr[w] /\ Listens(parent[w])
       THEN /\ nframes + PendingMapRequests < MaxFrames
            /\ Deliver(Event("MapRequest", w))
            /\ UNCHANGED mapped
       ELSE /\ mapped' = [mapped EXCEPT ![w] = TRUE]
            /\ handled' = NoEvent
            /\ UNCHANGED queue
    /\ UNCHANGED <<pc, local, todo, clients, drag, session, wm_detected, mutex, hpc, hctx,
                   reported, xerrors, calls, rival, serverGrabbed, parent, ovr, geom,
                   xframes, nframes, stack, saveSet, grabbed, focus, ptr, npress, profile>>

\* UnmapWindow by an application; an active grab on the window ends.
AppUnmapWindow(w) ==
    /\ Room
    /\ mapped[w]
    /\ mapped' = [mapped EXCEPT ![w] = FALSE]
    /\ IF Listens(parent[w])
       THEN Deliver(UnmapNotify(w, parent[w], "client"))
       ELSE /\ handled' = NoEvent
            /\ UNCHANGED queue
    /\ ptr' = IF ptr # <<>> /\ ptr[1] = w THEN <<>> ELSE ptr
    /\ UNCHANGED <<pc, local, todo, clients, drag, session, wm_detected, mutex, hpc, hctx,
                   reported, xerrors, calls, rival, serverGrabbed, parent, ovr, geom,
                   xframes, nframes, stack, saveSet, grabbed, focus, npress, profile>>

\* A client changes its override_redirect attribute.
AppSetOverrideRedirect(w) ==
    /\ Quiet
    /\ profile \in {"override", "key"}
    /\ ovr' = [ovr EXCEPT ![w] = ~ovr[w]]
    /\ handled' = NoEvent
    /\ UNCHANGED <<pc, local, todo, clients, drag, session, wm_detected, mutex, hpc, hctx,
                   reported, xerrors, calls, rival, serverGrabbed, parent, mapped, geom,
                   xframes, nframes, stack, saveSet, grabbed, focus, ptr, npress, profile,
                   queue>>

AppConfigureWindow(w, ch) ==
    /\ Room
    /\ profile = "configure"
    /\ ~ovr[w] /\ Listens(parent[w])
    /\ Deliver([Event("ConfigureRequest", w) EXCEPT !.changes = ch])
    /\ UNCHANGED <<pc, local, todo, clients, drag, session, wm_detected, mutex, hpc, hctx,
                   reported, xerrors, calls, rival, serverGrabbed, parent, mapped, ovr,
                   geom, xframes, nframes, stack, saveSet, grabbed, focus, ptr, npress,
                   profile>>

PointerEvent(t, w, p, st) ==
    [Event(t, w) EXCEPT !.x_root = p[1], !.y_root = p[2], !.state = st]

\* Alt + button 1 or 3 on a grabbed, viewable client starts a pointer grab;
\* a further button pressed while the grab is active is reported to the grab
\* window, with the buttons already down in its state.
UserButtonPress(w, b, p) ==
    /\ Room
    /\ profile = "pointer"
    /\ npress < MaxPresses
    /\ IF ptr = <<>>
       THEN w \in grabbed /\ Viewable(w)
       ELSE w = ptr[1] /\ b \notin ptr[2]
    /\ npress' = npress + 1
    /\ ptr' = <<w, (IF ptr = <<>> THEN {} ELSE ptr[2]) \cup {b}>>
    /\ Deliver(PointerEvent("ButtonPress", w, p,
                            {"Mod1"} \cup (IF ptr = <<>> THEN {} ELSE ptr[2])))
    /\ UNCHANGED <<pc, local, todo, clients, drag, session, wm_detected, mutex, hpc, hctx,
                   reported, xerrors, calls, rival, serverGrabbed, parent, mapped, ovr,
                   geom, xframes, nframes, stack, saveSet, grabbed, focus, profile>>

\* While a button is held, motion is reported for the grab window.
UserMotion(p) ==
    /\ Room
    /\ ptr # <<>>
    /\ Deliver(PointerEvent("MotionNotify", ptr[1], p, {"Mod1"} \cup ptr[2]))
    /\ UNCHANGED <<pc, local, todo, clients, drag, session, wm_detected, mutex, hpc, hctx,
                   reported, xerrors, calls, rival, serverGrabbed, parent, mapped, ovr,
                   geom, xframes, nframes, stack, saveSet, grabbed, focus, ptr, npress,
                   profile>>

\* The grab ends when the last button is released.
UserButtonRelease(b, p) ==
    /\ Room
    /\ ptr # <<>>
    /\ b \in ptr[2]
    /\ ptr' = IF ptr[2] = {b} THEN <<>> ELSE <<ptr[1], ptr[2] \ {b}>>
    /\ Deliver(PointerEvent("ButtonRelease", ptr[1], p, {"Mod1"} \cup ptr[2]))
    /\ UNCHANGED <<pc, local, todo, clients, drag, session, wm_detected, mutex, hpc, hctx,
                   reported, xerrors, calls, rival, serverGrabbed, parent, mapped, ovr,
                   geom, xframes, nframes, stack, saveSet, grabbed, focus, npress, profile>>

\* Alt+F4 or Alt+Tab on a grabbed, viewable client, and the key's release.
UserKey(t, w, k) ==
    /\ Room
    /\ profile = (IF t = "KeyPress" THEN "key" ELSE "notify")
    /\ w \in grabbed /\ Viewable(w)
    /\ Deliver([PointerEvent(t, w, <<0, 0>>, {"Mod1"}) EXCEPT !.keycode = k])
    /\ UNCHANGED <<pc, local, todo, clients, drag, session, wm_detected, mutex, hpc, hctx,
                   reported, xerrors, calls, rival, serverGrabbed, parent, mapped, ovr,
                   geom, xframes, nframes, stack, saveSet, grabbed, focus, ptr, npress,
                   profile>>

\* The notifications the server sends about the windows under the root and
\* under the frames, and events the loop has no branch for.
NotifyTypes ==
    {"CreateNotify", "DestroyNotify", "ReparentNotify", "MapNotify", "ConfigureNotify",
     "Other"}

ServerNotify(t, w) ==
    /\ Room
    /\ profile = "notify"
    /\ Deliver(Event(t, w))
    /\ UNCHANGED <<pc, local, todo, clients, drag, session, wm_detected, mutex, hpc, hctx,
                   reported, xerrors, calls, rival, serverGrabbed, parent, mapped, ovr,
                   geom, xframes, nframes, stack, saveSet, grabbed, focus, ptr, npress,
                   profile>>

Environment ==
    \/ \E w \in Clients : AppMapWindow(w)
    \/ \E w \in Clients : AppUnmapWindow(w)
    \/ \E w \in Clients : AppSetOverrideRedirect(w)
    \/ \E w \in Clients, ch \in ConfigureChoices : AppConfigureWindow(w, ch)
    \/ \E w \in Clients, b \in {"Button1", "Button3"}, p \in PressPositions :
          UserButtonPress(w, b, p)
    \/ \E p \in PointerPositions : UserMotion(p)
    \/ \E b \in {"Button1", "Button3"}, p \in ReleasePositions : UserButtonRelease(b, p)
    \/ \E w \in Clients, k \in {"F4", "Tab"} : UserKey("KeyPress", w, k)
    \/ \E w \in Clients : UserKey("KeyRelease", w, "Tab")
    \/ \E t \in NotifyTypes, w \in Clients : ServerNotify(t, w)

Probe ==
    \/ RunProbeBegin
    \/ ProbeSyncClean
    \/ \E ctx \in {"same", "other"} : ProbeSyncError(ctx)
    \/ OnWMDetectedAcquire
    \/ OnWMDetectedSet
    \/ ProbeCheck

Startup ==
    \/ GrabServer
    \/ StartupFrame
    \/ UngrabServer

FrameSteps ==
    \/ FrameCheck
    \/ FrameCreate
    \/ FrameAddToSaveSet
    \/ FrameReparent
    \/ FrameMap
    \/ FrameSave
    \/ FrameGrab

UnframeSteps ==
    \/ UnframeUnmap
    \/ UnframeReparent
    \/ UnframeRemoveFromSaveSet
    \/ UnframeDestroy
    \/ UnframeDrop

Dispatch ==
    \/ DispatchIgnored
    \/ DispatchUnmapNotify
    \/ DispatchMapRequest
    \/ OnMapRequestMap
    \/ DispatchConfigureRequest
    \/ DispatchButtonPress
    \/ DispatchButtonRelease
    \/ DispatchMotionNotify
    \/ DispatchKeyPress
    \/ OnXError

Next ==
    \/ Probe
    \/ Startup
    \/ FrameSteps
    \/ UnframeSteps
    \/ Dispatch
    \/ Environment

Spec ==
    Init /\ [][Next]_vars

\* ===================================================================
\* Properties
\* ===================================================================
\* The manager is not inside Frame, Unframe or OnMapRequest.
BetweenHandlers ==
    pc \in {"init", "probe_sync", "in_handler", "probe_check", "returned", "grab",
            "startup", "loop", "crashed"}

LastCall ==
    calls[Len(calls)]

\* C1: between handlers, a window is a key of the registry exactly when its
\* parent is a live frame of the manager; a key maps to that frame, no key
\* and no frame occurs twice, and every live frame is the value of a key.
C1_RegistryMatchesTree ==
    BetweenHandlers =>
        /\ Keys(clients) \subseteq Clients
        /\ \A w \in Clients : Contains(clients, w) <=> parent[w] \in LiveFrames
        /\ \A w \in Keys(clients) : Lookup(clients, w) = parent[w]
        /\ \A i, j \in 1..Len(clients) :
              (clients[i][1] = clients[j][1] \/ clients[i][2] = clients[j][2]) => i = j
        /\ LiveFrames = FramesOf(clients)

\* One client is framed and another, framed earlier, has been unframed.
C1_Witness ==
    /\ pc = "loop"
    /\ Len(clients) >= 1
    /\ nframes > Len(clients)
    /\ \E w \in Clients : w \in grabbed /\ ~Contains(clients, w) /\ parent[w] = Root
    /\ LiveFrames = FramesOf(clients)

\* C2: a call of Frame for a window that is already a key returns at once:
\* it creates no window, reparents nothing and leaves the registry with its
\* order, the save-set, the grabs and the window tree as they were.
C2_FrameIdempotent ==
    [][(pc = "frame_check" /\ Contains(clients, local.w) /\ pc' # pc) =>
          /\ pc' \in {"startup", "maprequest_map"}
          /\ UNCHANGED <<clients, xframes, nframes, parent, saveSet, stack, geom, mapped,
                         grabbed, queue>>]_vars

\* Frame has returned twice in a row for one window: the first call made
\* its frame, the second made none, and the window is still in that frame.
C2_Witness ==
    /\ pc = "maprequest_map"
    /\ Len(calls) = 2
    /\ calls[1].op = "Frame" /\ calls[2].op = "Frame"
    /\ calls[1].w = local.w /\ calls[2].w = local.w
    /\ calls[1].frame # NONE /\ calls[2].frame = NONE
    /\ Lookup(clients, local.w) = calls[1].frame
    /\ parent[local.w] = calls[1].frame

\* Frame(c, False) that framed c, directly followed by Unframe(c), whose
\* handler has just returned.
FramedThenUnframed ==
    /\ pc = "loop"
    /\ Len(calls) = 2
    /\ calls[1].op = "Frame" /\ ~calls[1].pre /\ calls[1].frame # NONE
    /\ calls[2].op = "Unframe" /\ calls[2].w = calls[1].w
    /\ handled.by = "OnUnmapNotify" /\ handled.window = calls[1].w
    /\ handled.event = calls[1].frame

\* C3: after Frame(c, False) directly followed by Unframe(c), c is a child of
\* the root at offset (0,0), is no key of the registry, is not in the
\* save-set, and the frame made for it is destroyed.
C3_FrameThenUnframe ==
    FramedThenUnframed =>
        /\ parent[calls[1].w] = Root
        /\ geom[calls[1].w].x = 0 /\ geom[calls[1].w].y = 0
        /\ ~Contains(clients, calls[1].w)
        /\ calls[1].w \notin saveSet
        /\ ~xframes[calls[1].frame].live

\* The case of C3 for a client that did not start at the root's origin.
C3_Witness ==
    /\ FramedThenUnframed
    /\ parent[calls[1].w] = Root
    /\ geom[calls[1].w].x = 0
    /\ InitGeom(calls[1].w).x # 0
    /\ calls[2].frame = calls[1].frame

\* C4: in every state, also inside Frame and Unframe, a client whose parent
\* is a frame of the manager is in the save-set.
C4_SaveSetCoversFramed ==
    \A w \in Clients : parent[w] \in FrameIds => w \in saveSet

\* Inside Frame: the client is in its frame and in the save-set, and not yet
\* in the registry.
C4_Witness ==
    /\ pc = "frame_map"
    /\ parent[local.w] = local.frame
    /\ local.w \in saveSet
    /\ ~Contains(clients, local.w)

\* C5: while the startup reparenting runs, a top-level window that sets
\* override_redirect or is not viewable is no key of the registry, stays a
\* child of the root, is not in the save-set and has no grabs, no step of
\* Frame past its tests runs for it, and between two calls of Frame every
\* window the manager has created is the frame of a key.
C5_StartupSkips ==
    serverGrabbed =>
        /\ \A w \in Clients : (ovr[w] \/ ~mapped[w]) =>
              /\ ~Contains(clients, w)
              /\ parent[w] = Root
              /\ w \notin saveSet
              /\ w \notin grabbed
              /\ local.w = w => pc = "frame_check"
        /\ pc = "startup" =>
              /\ nframes = Len(clients)
              /\ LiveFrames = FramesOf(clients)

\* The startup loop is done: a viewable override_redirect window was skipped
\* and another window was framed.
C5_Witness ==
    /\ serverGrabbed /\ pc = "startup" /\ todo = <<>>
    /\ \E w \in Clients : ovr[w] /\ mapped[w] /\ ~Contains(clients, w)
    /\ clients # <<>>

\* C6: when OnMapRequest maps the client, the window is already a key and
\* sits in its live frame; when the handler has returned, the window is a key
\* and is mapped.
C6_MapRequestFrames ==
    /\ pc = "maprequest_map" =>
          /\ Contains(clients, local.w)
          /\ parent[local.w] = Lookup(clients, local.w)
          /\ xframes[parent[local.w]].live
    /\ (pc = "loop" /\ handled.by = "OnMapRequest") =>
          /\ Contains(clients, handled.window)
          /\ mapped[handled.window]

\* A MapRequest has framed a window that sets override_redirect.
C6_Witness ==
    /\ pc = "loop" /\ handled.by = "OnMapRequest"
    /\ ovr[handled.window]
    /\ LastCall.op = "Frame" /\ LastCall.w = handled.window /\ LastCall.frame # NONE
    /\ Lookup(clients, handled.window) = LastCall.frame
    /\ mapped[handled.window]

\* C7: when the handler of the UnmapNotify that the startup reparenting of a
\* window caused has returned, the window is still a key, still a child of
\* its frame, and the frame is alive.
C7_StartupUnmapIgnored ==
    (pc = "loop" /\ handled.by = "OnUnmapNotify" /\ handled.cause = "startup") =>
        /\ handled.event = Root
        /\ Contains(clients, handled.window)
        /\ parent[handled.window] = Lookup(clients, handled.window)
        /\ xframes[parent[handled.window]].live

C7_Witness ==
    /\ pc = "loop" /\ handled.by = "OnUnmapNotify" /\ handled.cause = "startup"
    /\ Contains(clients, handled.window)
    /\ parent[handled.window] \in LiveFrames

\* C8: OnUnmapNotify for a key whose frame reported the notification calls
\* Unframe for it; before Unframe drops the key, and when the handler has
\* returned, the client is a child of the root, is not in the save-set and
\* its frame is destroyed, and after the handler it is no key.  A Frame call
\* for a MapRequest that follows the Unframe of the same window makes a new
\* frame, which is not the destroyed one.
C8_UnmapUnframes ==
    /\ [][(/\ Fetching
           /\ queue' = Tail(queue)
           /\ Head(queue).type = "UnmapNotify"
           /\ Contains(clients, Head(queue).window)
           /\ Head(queue).event = Lookup(clients, Head(queue).window)) =>
             /\ pc' = "unframe_unmap"
             /\ local'.w = Head(queue).window
             /\ local'.frame = Head(queue).event
             /\ local'.e = Head(queue)]_vars
    /\ [](pc = "unframe_drop" =>
             /\ parent[local.w] = Root
             /\ local.w \notin saveSet
             /\ ~xframes[local.frame].live)
    /\ []((pc = "loop" /\ handled.by = "OnUnmapNotify" /\ calls # <<>>
             /\ LastCall = [op |-> "Unframe", w |-> handled.window, pre |-> FALSE,
                            frame |-> handled.event]) =>
             /\ ~Contains(clients, handled.window)
             /\ parent[handled.window] = Root
             /\ handled.window \notin saveSet
             /\ ~xframes[handled.event].live)
    /\ []((Len(calls) = 2 /\ calls[1].op = "Unframe" /\ calls[2].op = "Frame"
             /\ calls[2].w = calls[1].w /\ ~calls[2].pre) =>
             /\ calls[2].frame \notin {NONE, calls[1].frame}
             /\ pc = "maprequest_map" =>
                   /\ Lookup(clients, calls[2].w) = calls[2].frame
                   /\ xframes[calls[2].frame].live)

\* A window was unframed on its UnmapNotify and a later MapRequest has framed
\* it again.
C8_Witness ==
    /\ pc = "loop" /\ handled.by = "OnMapRequest"
    /\ Len(calls) = 2 /\ calls[1].op = "Unframe" /\ calls[2].op = "Frame"
    /\ calls[1].w = handled.window /\ calls[2].w = handled.window
    /\ calls[2].frame # NONE
    /\ ~xframes[calls[1].frame].live
    /\ Lookup(clients, handled.window) = calls[2].frame

\* C9: once BadAccess has reached the interceptor during the probe, the
\* server is not grabbed, nothing is framed, the registry is empty, Run does
\* not go past the probe, and Run has returned with the failure reported or
\* can still take a step.
C9_RivalAbort ==
    hpc # "idle" =>
        /\ ~serverGrabbed
        /\ nframes = 0
        /\ clients = <<>>
        /\ pc \in {"in_handler", "probe_check", "returned"}
        /\ (pc = "returned" /\ reported) \/ ENABLED Next

\* C10: Alt+Tab on a key at place i of the registry's order raises the frame
\* of the key at place (i mod n) + 1 to the top, sets the input focus to that
\* key, and leaves the registry and its order as they were.
C10_CycleOrder ==
    [][(/\ Fetching
        /\ queue' = Tail(queue)
        /\ Head(queue).type = "KeyPress"
        /\ "Mod1" \in Head(queue).state
        /\ Head(queue).keycode = "Tab"
        /\ Contains(clients, Head(queue).window)) =>
          LET i == IndexOf(clients, Head(queue).window)
              n == Len(clients)
              target == clients[(i % n) + 1]
          IN  /\ focus' = target[1]
              /\ stack'[Len(stack')] = target[2]
              /\ clients' = clients
              /\ pc' = "loop"]_vars

\* Alt+Tab on the last key of a registry of at least two has wrapped to the
\* first.
C10_Witness ==
    /\ pc = "loop" /\ handled.by = "OnKeyPress" /\ handled.keycode = "Tab"
    /\ "Mod1" \in handled.state
    /\ Len(clients) >= 2
    /\ handled.window = clients[Len(clients)][1]
    /\ focus = clients[1][1]
    /\ stack[Len(stack)] = clients[1][2]

\* The step is a fetch by the main loop: only the loop shortens the queue.
Fetched ==
    /\ Fetching
    /\ Len(queue') < Len(queue)

\* C11: Alt+Tab on a window that is no key of the registry, the empty
\* registry included, does nothing: the stacking order, the input focus and
\* the registry stay as they were and the loop goes on to the next event.
C11_TabUnregisteredNoOp ==
    [][(/\ Fetched
        /\ Head(queue).type = "KeyPress"
        /\ "Mod1" \in Head(queue).state
        /\ Head(queue).keycode = "Tab"
        /\ ~Contains(clients, Head(queue).window)) =>
          /\ pc' = "loop"
          /\ UNCHANGED <<stack, focus, clients>>]_vars

\* The step hands the MotionNotify e for a key to OnMotionNotify while the
\* drag_start values are those of a press on the same client.
MotionInDrag(e) ==
    /\ Fetched
    /\ Head(queue).type = "MotionNotify"
    /\ e.type = "MotionNotify"
    /\ e.by = "OnMotionNotify"
    /\ Contains(clients, e.window)
    /\ drag.set
    /\ session.w = e.window

\* C12: a MotionNotify for X with Button1 in its state, after a ButtonPress
\* on X, puts the frame at the position saved at the press plus the pointer's
\* displacement since the press, and leaves the sizes of frame and client as
\* they were.
C12_MoveFromDragStart ==
    [][\A e \in {handled'} :
          (MotionInDrag(e) /\ "Button1" \in e.state) =>
             LET f == Lookup(clients, e.window) IN
             /\ xframes'[f].x = drag.frame_pos[1] + (e.x_root - drag.pos[1])
             /\ xframes'[f].y = drag.frame_pos[2] + (e.y_root - drag.pos[2])
             /\ xframes'[f].width = xframes[f].width
             /\ xframes'[f].height = xframes[f].height
             /\ geom'[e.window].width = geom[e.window].width
             /\ geom'[e.window].height = geom[e.window].height
             /\ drag' = drag]_vars

\* A move has put the frame away from where the press found it, and the
\* frame was away from there already before this motion's press ended.
C12_Witness ==
    /\ pc = "loop"
    /\ handled.by = "OnMotionNotify" /\ handled.type = "MotionNotify"
    /\ "Button1" \in handled.state
    /\ Contains(clients, handled.window)
    /\ session.w = handled.window /\ session.open
    /\ handled.x_root # drag.pos[1]
    /\ xframes[Lookup(clients, handled.window)].x
          = drag.frame_pos[1] + (handled.x_root - drag.pos[1])
    /\ xframes[Lookup(clients, handled.window)].y
          = drag.frame_pos[2] + (handled.y_root - drag.pos[2])

\* C13: a MotionNotify for X with Button3 and without Button1 in its state,
\* after a ButtonPress on X, gives frame and client the size saved at the
\* press plus the pointer's displacement, each displacement raised to minus
\* the saved dimension; no dimension is negative, frame and client get the
\* same size, and the frame's position stays.
C13_ResizeClamped ==
    [][\A e \in {handled'} :
          (MotionInDrag(e) /\ "Button3" \in e.state /\ "Button1" \notin e.state) =>
             LET f == Lookup(clients, e.window)
                 dx == e.x_root - drag.pos[1]
                 dy == e.y_root - drag.pos[2]
                 width == drag.frame_size[1]
                            + (IF dx < -drag.frame_size[1] THEN -drag.frame_size[1] ELSE dx)
                 height == drag.frame_size[2]
                            + (IF dy < -drag.frame_size[2] THEN -drag.frame_size[2] ELSE dy)
             IN
             /\ xframes'[f].width = width /\ xframes'[f].height = height
             /\ geom'[e.window].width = width /\ geom'[e.window].height = height
             /\ width >= 0 /\ height >= 0
             /\ xframes'[f].x = xframes[f].x /\ xframes'[f].y = xframes[f].y]_vars

\* A resize whose vertical displacement went below minus the saved height:
\* the height is at the floor, the width has grown.
C13_Witness ==
    /\ pc = "loop"
    /\ handled.by = "OnMotionNotify" /\ handled.type = "MotionNotify"
    /\ "Button3" \in handled.state /\ "Button1" \notin handled.state
    /\ Contains(clients, handled.window)
    /\ session.w = handled.window
    /\ handled.y_root - drag.pos[2] < -drag.frame_size[2]
    /\ xframes[Lookup(clients, handled.window)].height = 0
    /\ geom[handled.window].height = 0
    /\ xframes[Lookup(clients, handled.window)].width
          = drag.frame_size[1] + (handled.x_root - drag.pos[1])
    /\ geom[handled.window].width = xframes[Lookup(clients, handled.window)].width

\* The queue holds two or more events, all of them MotionNotify for one
\* window.
OnlyMotions ==
    /\ Len(queue) >= 2
    /\ \A i \in 1..Len(queue) :
          queue[i].type = "MotionNotify" /\ queue[i].window = queue[1].window

\* C14: when the loop fetches from a queue of two or more MotionNotify for
\* one window and nothing else, it empties the queue in that one step and
\* calls OnMotionNotify once, with the last of them.
C14_MotionCoalesced ==
    [][(Fetched /\ OnlyMotions) =>
          /\ queue' = <<>>
          /\ handled' = [Handled("OnMotionNotify", queue[Len(queue)])
                            EXCEPT !.skipped = Len(queue) - 1]
          /\ pc' = "loop"
          /\ "Button1" \in queue[Len(queue)].state /\ Contains(clients, queue[1].window) =>
                /\ xframes'[Lookup(clients, queue[1].window)].x
                      = drag.frame_pos[1] + (queue[Len(queue)].x_root - drag.pos[1])
                /\ xframes'[Lookup(clients, queue[1].window)].y
                      = drag.frame_pos[2] + (queue[Len(queue)].y_root - drag.pos[2])]_vars

\* A run of motions was pending: the handler was called for the last one
\* after the earlier ones were dropped, and the frame is where the last one
\* puts it.
C14_Witness ==
    /\ pc = "loop" /\ queue = <<>>
    /\ handled.by = "OnMotionNotify" /\ handled.type = "MotionNotify"
    /\ handled.skipped >= 1
    /\ "Button1" \in handled.state
    /\ Contains(clients, handled.window)
    /\ session.w = handled.window
    /\ xframes[Lookup(clients, handled.window)].x
          = drag.frame_pos[1] + (handled.x_root - drag.pos[1])
    /\ xframes[Lookup(clients, handled.window)].x # drag.frame_pos[1]

\* C15: the loop drops nothing but MotionNotify events: an event of another
\* type leaves the queue only as its head, alone, and is not handed to
\* OnMotionNotify, also when it is queued behind MotionNotify events.
C15_OnlyMotionsDropped ==
    [][Fetched =>
          \A i \in 1..(Len(queue) - Len(queue')) :
             queue[i].type # "MotionNotify" =>
                /\ i = 1
                /\ Len(queue') = Len(queue) - 1
                /\ handled'.by # "OnMotionNotify"
                /\ pc' = "crashed" => queue[i].type = "KeyPress"]_vars

\* C16: a MotionNotify handed to OnMotionNotify outside a drag session of
\* its window (no press handled yet, the last press handled was on another
\* client, or a release has been handled since) changes no geometry and does
\* not fail.
C16_MotionOutsideSession ==
    [][(/\ Fetched
        /\ Head(queue).type = "MotionNotify"
        /\ Drain(Head(queue), Tail(queue))[1].type = "MotionNotify"
        /\ ~(session.open /\ session.w = Drain(Head(queue), Tail(queue))[1].window)) =>
          /\ pc' = "loop"
          /\ UNCHANGED <<xframes, geom>>]_vars

\* The window of stacking order s that the mode of a request puts w at.
PlacedBy(s, w, mode) ==
    IF mode = "Above" THEN s[Len(s)] = w ELSE s[1] = w

\* C17: OnConfigureRequest gives the client the requested position, size
\* and border width, and the requested place in the stacking order of its
\* siblings; a key's frame gets the requested position, size and place as
\* well; for a window that is no key no frame changes; the registry stays.
C17_ConfigureVerbatim ==
    [][(Fetched /\ Head(queue).type = "ConfigureRequest") =>
          LET w == Head(queue).window
              ch == Head(queue).changes
          IN
          /\ geom'[w] = [x |-> ch.x, y |-> ch.y, width |-> ch.width, height |-> ch.height,
                         border_width |-> ch.border_width]
          /\ \A v \in Clients \ {w} : geom'[v] = geom[v]
          /\ clients' = clients
          /\ pc' = "loop"
          /\ IF Contains(clients, w)
             THEN LET f == Lookup(clients, w) IN
                  /\ xframes'[f].x = ch.x /\ xframes'[f].y = ch.y
                  /\ xframes'[f].width = ch.width /\ xframes'[f].height = ch.height
                  /\ PlacedBy(stack', f, ch.stack_mode)
                  /\ \A g \in FrameIds \ {f} : xframes'[g] = xframes[g]
             ELSE /\ xframes' = xframes
                  /\ parent[w] = Root => PlacedBy(stack', w, ch.stack_mode)]_vars

\* A request that changes every field has been handled for a key: client and
\* frame have the requested geometry and the frame is on top.
C17_Witness ==
    /\ pc = "loop" /\ handled.by = "OnConfigureRequest"
    /\ Contains(clients, handled.window)
    /\ handled.changes.x # InitGeom(handled.window).x
    /\ handled.changes.width # InitGeom(handled.window).width
    /\ geom[handled.window].x = handled.changes.x
    /\ geom[handled.window].width = handled.changes.width
    /\ xframes[Lookup(clients, handled.window)].x = handled.changes.x
    /\ xframes[Lookup(clients, handled.window)].width = handled.changes.width
    /\ handled.changes.stack_mode = "Above"
    /\ stack[Len(stack)] = Lookup(clients, handled.window)
    /\ Len(clients) >= 2

\* C18: the main loop never ends by itself: no handler leaves Run through an
\* exception, whatever was delivered; and the step in which OnXError logs an
\* error changes nothing else: not the registry, not the drag_start values,
\* not the queue, and no request goes to the server.
C18_LoopNeverStops ==
    /\ [](pc # "crashed")
    /\ [][xerrors' # xerrors =>
             /\ pc = "loop" /\ pc' = "loop"
             /\ UNCHANGED <<clients, drag, session, local, queue, parent, mapped, geom,
                            xframes, nframes, stack, saveSet, grabbed, focus,
                            serverGrabbed>>]_vars

\* C19: OnWMDetected writes the flag only while Run is not between taking
\* the lock and reading the flag; once BadAccess has been delivered during
\* the round trip, Run has not read the flag as False (it is still inside the
\* probe, or it has reported the rival and returned); and while the handler
\* waits for the lock some step is possible.
C19_ProbeSynchronised ==
    /\ hpc = "set" => (mutex = "handler" /\ pc # "probe_check")
    /\ (hpc # "idle" /\ pc \notin {"probe_sync", "in_handler", "probe_check"}) =>
          (pc = "returned" /\ reported)
    /\ hpc = "acquire" => ENABLED Next

\* C20: a fetch that starts with a MotionNotify for window X drops, besides
\* that event when a later one replaces it, only MotionNotify events for X,
\* and calls OnMotionNotify with an event for X.
C20_DrainSameWindow ==
    [][(Fetched /\ Head(queue).type = "MotionNotify") =>
          /\ \A i \in 1..(Len(queue) - Len(queue')) :
                queue[i].type = "MotionNotify" /\ queue[i].window = Head(queue).window
          /\ Drain(Head(queue), Tail(queue))[1].window = Head(queue).window]_vars

\* The event a handler is working on lets it insert a key: a MapRequest for
\* a window that is no key.
InsertingDispatch ==
    /\ local.e.type = "MapRequest"
    /\ local.w = local.e.window
    /\ ~Contains(clients, local.e.window)

\* The event a handler is working on lets it remove a key: an UnmapNotify
\* for a key, not reported by the root.
RemovingDispatch ==
    /\ local.e.type = "UnmapNotify"
    /\ local.w = local.e.window
    /\ Contains(clients, local.e.window)
    /\ local.e.event # Root

\* C21: after startup, a step changes the registry, the set of live frames
\* or the save-set only inside the handler of a MapRequest for a window that
\* is no key or of an UnmapNotify for a key that the root did not report; a
\* fetch of any other event changes none of the three and calls neither the
\* creating part of Frame nor Unframe.
C21_RegistryChangedOnlyByMapUnmap ==
    /\ [][(/\ local.ret # "startup"
           /\ \/ clients' # clients
              \/ LiveFrames' # LiveFrames
              \/ saveSet' # saveSet) =>
             (InsertingDispatch \/ RemovingDispatch)]_vars
    /\ [][(/\ Fetched
           /\ ~(Head(queue).type = "MapRequest" /\ ~Contains(clients, Head(queue).window))
           /\ ~(/\ Head(queue).type = "UnmapNotify"
                /\ Contains(clients, Head(queue).window)
                /\ Head(queue).event # Root)) =>
             /\ clients' = clients
             /\ LiveFrames' = LiveFrames
             /\ saveSet' = saveSet
             /\ pc' \in {"loop", "crashed", "frame_check"}
             /\ pc' = "frame_check" => AlreadyFramed(clients, local'.w)]_vars

\* A DestroyNotify for a key has been ignored: the key, its frame and its
\* save-set entry are still there.
C21_Witness ==
    /\ pc = "loop" /\ handled.by = "none" /\ handled.type = "DestroyNotify"
    /\ Contains(clients, handled.window)
    /\ Lookup(clients, handled.window) \in LiveFrames
    /\ handled.window \in saveSet

\* C22: every live frame has the border width it was created with, the
\* decoration constant.
C22_FrameBorderFixed ==
    \A f \in LiveFrames : xframes[f].border_width = BORDER_WIDTH

\* C23: between two handlers, every key that is a child of its frame sits at
\* (0, 0) in it and has the frame's width and height.
C23_ClientFillsFrame ==
    pc = "loop" =>
        \A i \in 1..Len(clients) :
            LET w == clients[i][1]
                f == clients[i][2]
            IN (parent[w] = f /\ xframes[f].live) =>
                  /\ geom[w].x = 0 /\ geom[w].y = 0
                  /\ geom[w].width = xframes[f].width
                  /\ geom[w].height = xframes[f].height

====
